---- MODULE Spec2Model ----
(***************************************************************************)
(* camera_controllers: the first person camera (src/first_person.rs) and   *)
(* the orbit/zoom camera (src/orbit_zoom_camera.rs) as state machines.     *)
(*                                                                         *)
(* The scalar type T (f32 by default) is modelled by exact numbers:        *)
(*   - angles of the first person camera are integers counting mouse       *)
(*     counts: one count is 1/360*pi/4 radians, so pi is 360*4 counts;     *)
(*   - values that can carry a factor sqrt(2) (direction, position,        *)
(*     quaternions, vectors) are numbers (a + b*sqrt(2)) / 2^k, written    *)
(*     <<a, b, k>> and kept normalised;                                    *)
(*   - floating point rounding is not modelled.                            *)
(***************************************************************************)
EXTENDS Integers, Sequences, FiniteSets, TLC

VARIABLES fp, oz, last, cam, time

vars == <<fp, oz, last, cam, time>>

----------------------------------------------------------------------------
(* Bounds of the model.                                                    *)

\* Largest mouse delta, in eighths of a turn (more than a full turn).
MaxTurn == 9
\* Largest elapsed time of one update, in seconds.
MaxDt == 2
\* Total elapsed time position is followed through, in seconds.
MaxTime == 2
\* Largest yaw and pitch of the orbit/zoom camera followed, in quarter turns.
MaxAngle == 1
\* Largest distance of the orbit/zoom camera followed.
MaxDistance == 10
\* Largest target of the orbit/zoom camera followed (sum of the coordinates).
MaxTarget == 4

----------------------------------------------------------------------------
(* Program constants.                                                      *)

\* The distance OrbitZoomCamera::new starts at, orbit_zoom_camera.rs:158.
Distance0 == 10

----------------------------------------------------------------------------
(* Exact numbers (a + b*sqrt(2)) / 2^k.                                    *)

Abs(i) == IF i < 0 THEN -i ELSE i

RECURSIVE Norm(_)
Norm(n) ==
    IF n[3] > 0 /\ n[1] % 2 = 0 /\ n[2] % 2 = 0
    THEN Norm(<<n[1] \div 2, n[2] \div 2, n[3] - 1>>)
    ELSE n

RECURSIVE Pow2(_)
Pow2(k) == IF k = 0 THEN 1 ELSE 2 * Pow2(k - 1)

NInt(i) == <<i, 0, 0>>

NZero == NInt(0)

NOne == NInt(1)

NNeg(p) == <<-p[1], -p[2], p[3]>>

NAdd(p, q) ==
    IF p[3] = q[3]
    THEN Norm(<<p[1] + q[1], p[2] + q[2], p[3]>>)
    ELSE LET k == IF p[3] > q[3] THEN p[3] ELSE q[3]
             mp == Pow2(k - p[3])
             mq == Pow2(k - q[3])
         IN  Norm(<<p[1] * mp + q[1] * mq, p[2] * mp + q[2] * mq, k>>)

NSub(p, q) == NAdd(p, NNeg(q))

NMul(p, q) ==
    IF p = <<0, 0, 0>> \/ q = <<0, 0, 0>>
    THEN <<0, 0, 0>>
    ELSE Norm(<<p[1] * q[1] + 2 * p[2] * q[2],
                p[1] * q[2] + p[2] * q[1],
                p[3] + q[3]>>)

\* The sign of a + b*sqrt(2): -1, 0 or 1.
NSign(p) ==
    LET a == p[1]
        b == p[2]
    IN  IF a = 0 /\ b = 0 THEN 0
        ELSE IF a >= 0 /\ b >= 0 THEN 1
        ELSE IF a <= 0 /\ b <= 0 THEN -1
        ELSE IF a > 0 THEN (IF a * a > 2 * b * b THEN 1 ELSE -1)
        ELSE (IF 2 * b * b > a * a THEN 1 ELSE -1)

\* sqrt(2), line 196 of first_person.rs.
sqrt2 == <<0, 1, 0>>

\* x / sqrt(2) = x * sqrt(2) / 2.
NDivSqrt2(p) == NMul(p, <<0, 1, 1>>)

vec3_add(u, v) == <<NAdd(u[1], v[1]), NAdd(u[2], v[2]), NAdd(u[3], v[3])>>

vec3_scale(u, s) == <<NMul(u[1], s), NMul(u[2], s), NMul(u[3], s)>>

vec3_sub(u, v) == vec3_add(u, vec3_scale(v, NInt(-1)))

----------------------------------------------------------------------------
(* Angles of the first person camera, in mouse counts.                     *)

\* pi: a mouse delta d turns by d / 360 * pi / 4 (first_person.rs:203),
\* so pi radians are 360 * 4 counts.
Pi == 360 * 4

\* The eighth of a turn; yaw stays a multiple of it in this model.
Eighth == Pi \div 4

\* 1 / sqrt(2) = sin(pi/4).
Half2 == <<0, 1, 1>>

\* The sine of n eighths of a turn.
SinEighths(n) ==
    LET i == n % 8
    IN  CASE i = 0 -> NZero
          [] i = 1 -> Half2
          [] i = 2 -> NOne
          [] i = 3 -> Half2
          [] i = 4 -> NZero
          [] i = 5 -> NNeg(Half2)
          [] i = 6 -> NInt(-1)
          [] i = 7 -> NNeg(Half2)

\* The cosine of n eighths of a turn.
CosEighths(n) == SinEighths(n + 2)

\* T::sin and T::cos of an angle in counts, a multiple of pi/4.
Sin(a) == SinEighths(a \div Eighth)

Cos(a) == CosEighths(a \div Eighth)

\* Mutant of Fmod: no remainder is taken, yaw grows without bound.
NoWrap(x, m) == x

\* The float remainder x % m of Rust (fmod): truncated, the sign of x.
Fmod(x, m) == IF x >= 0 THEN x % m ELSE -((-x) % m)

\* Mutant of Min: the upper clamp is dropped.
MinNoClamp(a, b) == a

Min(a, b) == IF a < b THEN a ELSE b

Max(a, b) == IF a > b THEN a ELSE b

----------------------------------------------------------------------------
(* First person camera: settings and inputs.                               *)

\* bitflags Keys, first_person.rs:10-17.
MOVE_FORWARD == "MOVE_FORWARD"
MOVE_BACKWARD == "MOVE_BACKWARD"
STRAFE_LEFT == "STRAFE_LEFT"
STRAFE_RIGHT == "STRAFE_RIGHT"
FLY_UP == "FLY_UP"
FLY_DOWN == "FLY_DOWN"

FPKeys == {MOVE_FORWARD, MOVE_BACKWARD, STRAFE_LEFT, STRAFE_RIGHT, FLY_UP, FLY_DOWN}

\* FirstPersonSettings::keyboard_wasd.
keyboard_wasd ==
    [move_forward_button |-> "W",
     move_backward_button |-> "S",
     strafe_left_button |-> "A",
     strafe_right_button |-> "D",
     fly_up_button |-> "Space",
     fly_down_button |-> "LShift",
     move_faster_button |-> "LCtrl",
     speed_horizontal |-> 1,
     speed_vertical |-> 1,
     mouse_sensitivity_horizontal |-> 1,
     mouse_sensitivity_vertical |-> 1]

\* The same bindings with speeds and sensitivities of the caller's choice
\* (the fields of FirstPersonSettings are public).
custom_speeds ==
    [keyboard_wasd EXCEPT
        !.speed_horizontal = 3,
        !.speed_vertical = 2,
        !.mouse_sensitivity_horizontal = 2,
        !.mouse_sensitivity_vertical = 3]

FPSettings == {keyboard_wasd, custom_speeds}

\* The buttons events are drawn from: the bound ones and one bound to nothing.
FPButtons == {"W", "S", "A", "D", "Space", "LShift", "LCtrl", "X"}

\* Mouse deltas: an eighth of a turn, and one larger than a full turn.
MouseDeltas == {-MaxTurn * Eighth, -Eighth, Eighth, MaxTurn * Eighth}

Dts == 1 .. MaxDt

Origin == <<NZero, NZero, NZero>>

NoEvent == [kind |-> "new", button |-> "", dx |-> 0, dy |-> 0, dt |-> 0]

Event(kind, button, dx, dy, dt) ==
    [kind |-> kind, button |-> button, dx |-> dx, dy |-> dy, dt |-> dt]

----------------------------------------------------------------------------
(* First person camera: operations.                                        *)

\* FirstPerson::new.
FPNew(position, settings) ==
    [settings |-> settings,
     yaw |-> 0,
     pitch |-> 0,
     keys |-> {},
     direction |-> <<NZero, NZero, NZero>>,
     position |-> position,
     velocity |-> 1]

\* Mutant of FPCamera: the vertical displacement is scaled like the horizontal.
FPCameraVerticalDh(self, dt) ==
    LET dh == dt * self.velocity * self.settings.speed_horizontal
        dx == self.direction[1]
        dy == self.direction[2]
        dz == self.direction[3]
        s == Sin(self.yaw)
        c == Cos(self.yaw)
    IN  [position |->
            <<NAdd(self.position[1],
                   NMul(NSub(NMul(s, dx), NMul(c, dz)), NInt(dh))),
              NAdd(self.position[2], NMul(dy, NInt(dh))),
              NAdd(self.position[3],
                   NMul(NAdd(NMul(s, dz), NMul(c, dx)), NInt(dh)))>>,
         yaw |-> self.yaw,
         pitch |-> self.pitch]

\* FirstPerson::camera: the pose dt seconds ahead; self is not changed.
FPCamera(self, dt) ==
    LET dh == dt * self.velocity * self.settings.speed_horizontal
        dx == self.direction[1]
        dy == self.direction[2]
        dz == self.direction[3]
        s == Sin(self.yaw)
        c == Cos(self.yaw)
    IN  [position |->
            <<NAdd(self.position[1],
                   NMul(NSub(NMul(s, dx), NMul(c, dz)), NInt(dh))),
              NAdd(self.position[2],
                   NMul(dy, NInt(dt * self.settings.speed_vertical))),
              NAdd(self.position[3],
                   NMul(NAdd(NMul(s, dz), NMul(c, dx)), NInt(dh)))>>,
         yaw |-> self.yaw,
         pitch |-> self.pitch]

\* Mutant of FPOnUpdate: the controller stops once it has moved.
FPOnUpdateStopping(self, dt) ==
    [self EXCEPT
        !.position = FPCamera(self, dt).position,
        !.direction = <<NZero, NZero, NZero>>]

\* event, the update closure (lines 172-175).
FPOnUpdate(self, dt) ==
    [self EXCEPT !.position = FPCamera(self, dt).position]

\* event, the mouse_relative closure (lines 198-206).
FPOnMouseRelative(self, mx, my) ==
    LET dx == mx * self.settings.mouse_sensitivity_horizontal
        dy == my * self.settings.mouse_sensitivity_vertical
    IN  [self EXCEPT
            !.yaw = Fmod(self.yaw - dx, 2 * Pi),
            !.pitch = Max(Min(self.pitch + dy, Pi \div 2), -(Pi \div 2))]

\* The closure sgn (lines 209, 239).
sgn(x) == IF x = NZero THEN NZero ELSE NInt(NSign(x))

\* Mutant of Scale: a diagonal is not scaled by 1 / sqrt(2).
ScaleNoSqrt(x, z) == <<sgn(x), sgn(z)>>

\* The scaling of the closures set (lines 211-216, 241-246).
Scale(x, z) ==
    LET sx == sgn(x)
        sz == sgn(z)
    IN  IF sx # NZero /\ sz # NZero
        THEN <<NDivSqrt2(sx), NDivSqrt2(sz)>>
        ELSE <<sx, sz>>

\* Mutant of PressSet: the key is not recorded as held.
PressSetNoInsert(self, k, x, y, z) ==
    LET xz == Scale(x, z)
    IN  [self EXCEPT !.direction = <<xz[1], y, xz[2]>>]

\* The closure set of press (lines 210-219).
PressSet(self, k, x, y, z) ==
    LET xz == Scale(x, z)
    IN  [self EXCEPT
            !.direction = <<xz[1], y, xz[2]>>,
            !.keys = self.keys \cup {k}]

\* event, the press closure (lines 207-236).
FPOnPress(self, button) ==
    LET dx == self.direction[1]
        dy == self.direction[2]
        dz == self.direction[3]
        st == self.settings
    IN  IF button = st.move_forward_button
            THEN PressSet(self, MOVE_FORWARD, NInt(-1), dy, dz)
        ELSE IF button = st.move_backward_button
            THEN PressSet(self, MOVE_BACKWARD, NOne, dy, dz)
        ELSE IF button = st.strafe_left_button
            THEN PressSet(self, STRAFE_LEFT, dx, dy, NOne)
        ELSE IF button = st.strafe_right_button
            THEN PressSet(self, STRAFE_RIGHT, dx, dy, NInt(-1))
        ELSE IF button = st.fly_up_button
            THEN PressSet(self, FLY_UP, dx, NOne, dz)
        ELSE IF button = st.fly_down_button
            THEN PressSet(self, FLY_DOWN, dx, NInt(-1), dz)
        ELSE IF button = st.move_faster_button
            THEN [self EXCEPT !.velocity = 2]
        ELSE self

\* The closure set of release (lines 240-248).
ReleaseSet(self, x, y, z) ==
    LET xz == Scale(x, z)
    IN  [self EXCEPT !.direction = <<xz[1], y, xz[2]>>]

\* Mutant of ReleaseKeys: the released key stays in the held keys.
ReleaseKeysKept(self, key) == self

\* The closure release (lines 249-252): the keys left, and the value of the axis.
ReleaseKeys(self, key) == [self EXCEPT !.keys = self.keys \ {key}]

\* Mutant of ReleaseVal: the axis is zeroed whatever is still held.
ReleaseValZero(self, key, rev_key, rev_val) == NZero

ReleaseVal(self, key, rev_key, rev_val) ==
    IF rev_key \in (self.keys \ {key}) THEN rev_val ELSE NZero

\* Mutant of FPOnRelease: the release of move faster leaves the velocity.
FPOnReleaseStaysFast(self, button) ==
    LET dx == self.direction[1]
        dy == self.direction[2]
        dz == self.direction[3]
        st == self.settings
    IN  IF button = st.move_forward_button
            THEN ReleaseSet(ReleaseKeys(self, MOVE_FORWARD),
                     ReleaseVal(self, MOVE_FORWARD, MOVE_BACKWARD, NOne), dy, dz)
        ELSE IF button = st.move_backward_button
            THEN ReleaseSet(ReleaseKeys(self, MOVE_BACKWARD),
                     ReleaseVal(self, MOVE_BACKWARD, MOVE_FORWARD, NInt(-1)), dy, dz)
        ELSE IF button = st.strafe_left_button
            THEN ReleaseSet(ReleaseKeys(self, STRAFE_LEFT),
                     dx, dy, ReleaseVal(self, STRAFE_LEFT, STRAFE_RIGHT, NInt(-1)))
        ELSE IF button = st.strafe_right_button
            THEN ReleaseSet(ReleaseKeys(self, STRAFE_RIGHT),
                     dx, dy, ReleaseVal(self, STRAFE_RIGHT, STRAFE_LEFT, NOne))
        ELSE IF button = st.fly_up_button
            THEN ReleaseSet(ReleaseKeys(self, FLY_UP),
                     dx, ReleaseVal(self, FLY_UP, FLY_DOWN, NInt(-1)), dz)
        ELSE IF button = st.fly_down_button
            THEN ReleaseSet(ReleaseKeys(self, FLY_DOWN),
                     dx, ReleaseVal(self, FLY_DOWN, FLY_UP, NOne), dz)
        ELSE IF button = st.move_faster_button
            THEN self
        ELSE self

\* event, the release closure (lines 237-269).
FPOnRelease(self, button) ==
    LET dx == self.direction[1]
        dy == self.direction[2]
        dz == self.direction[3]
        st == self.settings
    IN  IF button = st.move_forward_button
            THEN ReleaseSet(ReleaseKeys(self, MOVE_FORWARD),
                     ReleaseVal(self, MOVE_FORWARD, MOVE_BACKWARD, NOne), dy, dz)
        ELSE IF button = st.move_backward_button
            THEN ReleaseSet(ReleaseKeys(self, MOVE_BACKWARD),
                     ReleaseVal(self, MOVE_BACKWARD, MOVE_FORWARD, NInt(-1)), dy, dz)
        ELSE IF button = st.strafe_left_button
            THEN ReleaseSet(ReleaseKeys(self, STRAFE_LEFT),
                     dx, dy, ReleaseVal(self, STRAFE_LEFT, STRAFE_RIGHT, NInt(-1)))
        ELSE IF button = st.strafe_right_button
            THEN ReleaseSet(ReleaseKeys(self, STRAFE_RIGHT),
                     dx, dy, ReleaseVal(self, STRAFE_RIGHT, STRAFE_LEFT, NOne))
        ELSE IF button = st.fly_up_button
            THEN ReleaseSet(ReleaseKeys(self, FLY_UP),
                     dx, ReleaseVal(self, FLY_UP, FLY_DOWN, NInt(-1)), dz)
        ELSE IF button = st.fly_down_button
            THEN ReleaseSet(ReleaseKeys(self, FLY_DOWN),
                     dx, ReleaseVal(self, FLY_DOWN, FLY_UP, NOne), dz)
        ELSE IF button = st.move_faster_button
            THEN [self EXCEPT !.velocity = 1]
        ELSE self

----------------------------------------------------------------------------
(* First person camera: the events and calls as actions.                   *)

FPUpdate ==
    \E dt \in Dts :
        /\ time + dt <= MaxTime
        /\ fp' = FPOnUpdate(fp, dt)
        /\ time' = time + dt
        /\ last' = Event("update", "", 0, 0, dt)
        /\ cam' = <<>>
        /\ UNCHANGED oz

FPMouseRelative ==
    \E dx \in MouseDeltas, dy \in MouseDeltas :
        /\ fp' = FPOnMouseRelative(fp, dx, dy)
        /\ last' = Event("mouse_relative", "", dx, dy, 0)
        /\ cam' = <<>>
        /\ UNCHANGED <<oz, time>>

FPPressButton(button) ==
    /\ fp' = FPOnPress(fp, button)
    /\ last' = Event("press", button, 0, 0, 0)
    /\ cam' = <<>>
    /\ UNCHANGED <<oz, time>>

FPReleaseButton(button) ==
    /\ fp' = FPOnRelease(fp, button)
    /\ last' = Event("release", button, 0, 0, 0)
    /\ cam' = <<>>
    /\ UNCHANGED <<oz, time>>

FPPress == \E button \in FPButtons : FPPressButton(button)

FPRelease == \E button \in FPButtons : FPReleaseButton(button)

\* Mutant of FPCameraCall: the call stores the position it returns.
FPCameraCallStoring ==
    \E dt \in Dts :
        /\ cam' = <<FPCamera(fp, dt)>>
        /\ fp' = FPOnUpdate(fp, dt)
        /\ last' = Event("camera", "", 0, 0, dt)
        /\ UNCHANGED <<oz, time>>

\* A call of camera(dt) by the owner of the controller: cam is what it returns.
FPCameraCall ==
    \E dt \in Dts :
        /\ cam' = <<FPCamera(fp, dt)>>
        /\ last' = Event("camera", "", 0, 0, dt)
        /\ UNCHANGED <<fp, oz, time>>

\* The orbit/zoom camera does not exist in the first person specifications.
NoOrbit == [keys |-> {}]

\* Nor the first person camera in the orbit/zoom specifications.
NoFirstPerson == [keys |-> {}]

FPInit ==
    /\ \E st \in FPSettings : fp = FPNew(Origin, st)
    /\ oz = NoOrbit
    /\ last = NoEvent
    /\ cam = <<>>
    /\ time = 0

\* Buttons only.
KeysNext == FPPress \/ FPRelease

SpecKeys == FPInit /\ [][KeysNext]_vars

\* The pointer only.
LookNext == FPMouseRelative

SpecLook == FPInit /\ [][LookNext]_vars

\* Settings that bind one button to two actions: fly down of keyboard_wasd
\* and move faster of keyboard_esdf are both the left shift key.
shared_bindings == [keyboard_wasd EXCEPT !.move_faster_button = "LShift"]

SharedInit ==
    /\ fp = FPNew(Origin, shared_bindings)
    /\ oz = NoOrbit
    /\ last = NoEvent
    /\ cam = <<>>
    /\ time = 0

SpecShared == SharedInit /\ [][KeysNext]_vars

\* Time and camera queries, from the states three presses and a turn lead to;
\* the move faster button stays in use.
MoveInit ==
    \E st \in FPSettings, b1 \in FPButtons, b2 \in FPButtons, b3 \in FPButtons,
       t \in 0 .. 7 :
        /\ fp = FPOnMouseRelative(
                    FPOnPress(FPOnPress(FPOnPress(FPNew(Origin, st), b1), b2), b3),
                    t * Eighth, 0)
        /\ oz = NoOrbit
        /\ last = Event("mouse_relative", "", t * Eighth, 0, 0)
        /\ cam = <<>>
        /\ time = 0

FPFaster ==
    \/ FPPressButton(fp.settings.move_faster_button)
    \/ FPReleaseButton(fp.settings.move_faster_button)

MoveNext == FPUpdate \/ FPCameraCall \/ FPFaster

SpecMove == MoveInit /\ [][MoveNext]_vars

\* All four kinds of event together, on fewer inputs: the forward, strafe
\* right, move faster and unbound buttons, and quarter turns of the pointer
\* each way.
FrameButtons ==
    {keyboard_wasd.move_forward_button, keyboard_wasd.strafe_right_button,
     keyboard_wasd.move_faster_button, "X"}

FrameTurns == {<<2 * Eighth, 2 * Eighth>>, <<-2 * Eighth, -2 * Eighth>>}

FPFrameTurn ==
    \E d \in FrameTurns :
        /\ fp' = FPOnMouseRelative(fp, d[1], d[2])
        /\ last' = Event("mouse_relative", "", d[1], d[2], 0)
        /\ cam' = <<>>
        /\ UNCHANGED <<oz, time>>

FPFramePress == \E button \in FrameButtons : FPPressButton(button)

FPFrameRelease == \E button \in FrameButtons : FPReleaseButton(button)

FrameNext == FPUpdate \/ FPFrameTurn \/ FPFramePress \/ FPFrameRelease

SpecFrame == FPInit /\ [][FrameNext]_vars

----------------------------------------------------------------------------
(* Quaternions (w, <<x, y, z>>) as the quaternion crate computes them.     *)
(* Angles of the orbit/zoom camera are integers counting quarter turns,    *)
(* so half an angle is a number of eighths of a turn.                      *)

dot(u, v) == NAdd(NAdd(NMul(u[1], v[1]), NMul(u[2], v[2])), NMul(u[3], v[3]))

cross(u, v) ==
    <<NSub(NMul(u[2], v[3]), NMul(u[3], v[2])),
      NSub(NMul(u[3], v[1]), NMul(u[1], v[3])),
      NSub(NMul(u[1], v[2]), NMul(u[2], v[1]))>>

\* quaternion::id.
id == <<NOne, <<NZero, NZero, NZero>>>>

\* quaternion::conj.
conj(q) == <<q[1], vec3_scale(q[2], NInt(-1))>>

\* quaternion::mul.
mul(a, b) ==
    <<NSub(NMul(a[1], b[1]), dot(a[2], b[2])),
      vec3_add(vec3_add(vec3_scale(b[2], a[1]), vec3_scale(a[2], b[1])),
               cross(a[2], b[2]))>>

\* quaternion::axis_angle, the angle in quarter turns.
axis_angle(axis, angle) == <<CosEighths(angle), vec3_scale(axis, SinEighths(angle))>>

\* quaternion::rotate_vector, computed: q * (0, v) * conj(q).
rotate_vector_direct(q, v) == mul(mul(q, <<NZero, v>>), conj(q))[2]

\* The rotations yaw and pitch on the grid give (half angles have period 8),
\* and the unit axes, with the rotated axes computed once.
GridRotations ==
    {mul(axis_angle(<<NZero, NOne, NZero>>, y), axis_angle(<<NOne, NZero, NZero>>, p)) :
        y \in 0 .. 7, p \in 0 .. 7}

UnitAxes == {<<NOne, NZero, NZero>>, <<NZero, NOne, NZero>>, <<NZero, NZero, NOne>>}

RotatedAxes ==
    [q \in GridRotations, v \in UnitAxes |-> rotate_vector_direct(q, v)]

\* quaternion::rotate_vector, by the table where it has the entry.
rotate_vector(q, v) ==
    IF q \in GridRotations /\ v \in UnitAxes
    THEN RotatedAxes[q, v]
    ELSE rotate_vector_direct(q, v)

----------------------------------------------------------------------------
(* Orbit/zoom camera: settings and inputs.                                 *)

\* bitflags Keys, orbit_zoom_camera.rs:17-23.
ZOOM == "ZOOM"
PAN == "PAN"
ORBIT == "ORBIT"

\* The bindings of OrbitZoomCameraSettings::default, with speeds set by the
\* builder methods: orbit_speed a quarter turn per unit of delta, pitch_speed
\* -1 (the reversed pitch of the documentation), pan_speed 2, zoom_speed 10.
orbit_settings ==
    [orbit_button |-> "MouseLeft",
     zoom_button |-> "LCtrl",
     pan_button |-> "LShift",
     orbit_speed |-> 1,
     pitch_speed |-> -1,
     pan_speed |-> 2,
     zoom_speed |-> 10]

\* The buttons events are drawn from: the bound ones and one bound to nothing.
OZButtons == {"MouseLeft", "LCtrl", "LShift", "X"}

\* Scroll and pointer deltas <<dx, dy>>: a step along each axis and diagonals.
Deltas == {<<1, 0>>, <<-1, 0>>, <<0, 1>>, <<0, -1>>, <<1, -1>>, <<-1, 1>>}

\* The size of a target on the integer grid.
TargetSize(t) == Abs(t[1][1]) + Abs(t[2][1]) + Abs(t[3][1])

\* The part of the unbounded state the model follows.
InBounds(self) ==
    /\ Abs(self.yaw) <= MaxAngle
    /\ Abs(self.pitch) <= MaxAngle
    /\ Abs(self.distance) <= MaxDistance
    /\ TargetSize(self.target) <= MaxTarget

----------------------------------------------------------------------------
(* Orbit/zoom camera: operations.                                          *)

\* OrbitZoomCamera::new.
OZNew(target, settings) ==
    [target |-> target,
     rotation |-> id,
     distance |-> Distance0,
     pitch |-> 0,
     yaw |-> 0,
     keys |-> {},
     settings |-> settings]

\* Mutant of OZCamera: the camera is placed dt further from the target.
OZCameraAhead(self, dt) ==
    [position |->
        vec3_add(self.target,
                 rotate_vector(self.rotation,
                               <<NZero, NZero, NInt(self.distance + dt)>>)),
     rotation |-> self.rotation]

\* OrbitZoomCamera::camera: the Camera at target + rotation * (0, 0, distance)
\* with the rotation of the controller; dt is not used and self not changed.
OZCamera(self, dt) ==
    [position |->
        vec3_add(self.target,
                 rotate_vector(self.rotation,
                               <<NZero, NZero, NInt(self.distance)>>)),
     rotation |-> self.rotation]

\* Mutant of control_camera: zoom is tested before pan.
control_camera_zoom_first(self, dx, dy) ==
    IF ZOOM \in self.keys THEN
        [self EXCEPT !.distance = self.distance + dy * self.settings.zoom_speed]
    ELSE IF PAN \in self.keys THEN
        LET px == dx * self.settings.pan_speed
            py == dy * self.settings.pan_speed
            right == rotate_vector(self.rotation, <<NOne, NZero, NZero>>)
            up == rotate_vector(self.rotation, <<NZero, NOne, NZero>>)
        IN  [self EXCEPT !.target =
                vec3_add(vec3_add(self.target, vec3_scale(up, NInt(py))),
                         vec3_scale(right, NInt(px)))]
    ELSE
        LET ox == dx * self.settings.orbit_speed
            oy == dy * self.settings.orbit_speed
            yaw == self.yaw + ox
            pitch == self.pitch + oy * self.settings.pitch_speed
        IN  [self EXCEPT
                !.yaw = yaw,
                !.pitch = pitch,
                !.rotation = mul(axis_angle(<<NZero, NOne, NZero>>, yaw),
                                 axis_angle(<<NOne, NZero, NZero>>, pitch))]

\* Mutant of control_camera: the distance is kept from going below zero.
control_camera_clamped(self, dx, dy) ==
    IF PAN \in self.keys THEN
        LET px == dx * self.settings.pan_speed
            py == dy * self.settings.pan_speed
            right == rotate_vector(self.rotation, <<NOne, NZero, NZero>>)
            up == rotate_vector(self.rotation, <<NZero, NOne, NZero>>)
        IN  [self EXCEPT !.target =
                vec3_add(vec3_add(self.target, vec3_scale(up, NInt(py))),
                         vec3_scale(right, NInt(px)))]
    ELSE IF ZOOM \in self.keys THEN
        [self EXCEPT !.distance =
            Max(self.distance + dy * self.settings.zoom_speed, 0)]
    ELSE
        LET ox == dx * self.settings.orbit_speed
            oy == dy * self.settings.orbit_speed
            yaw == self.yaw + ox
            pitch == self.pitch + oy * self.settings.pitch_speed
        IN  [self EXCEPT
                !.yaw = yaw,
                !.pitch = pitch,
                !.rotation = mul(axis_angle(<<NZero, NOne, NZero>>, yaw),
                                 axis_angle(<<NOne, NZero, NZero>>, pitch))]

\* Mutant of control_camera: the orbit keeps the pitch within a quarter turn
\* and the yaw within a turn, as the first person camera does.
control_camera_bounded(self, dx, dy) ==
    IF PAN \in self.keys THEN
        LET px == dx * self.settings.pan_speed
            py == dy * self.settings.pan_speed
            right == rotate_vector(self.rotation, <<NOne, NZero, NZero>>)
            up == rotate_vector(self.rotation, <<NZero, NOne, NZero>>)
        IN  [self EXCEPT !.target =
                vec3_add(vec3_add(self.target, vec3_scale(up, NInt(py))),
                         vec3_scale(right, NInt(px)))]
    ELSE IF ZOOM \in self.keys THEN
        [self EXCEPT !.distance = self.distance + dy * self.settings.zoom_speed]
    ELSE
        LET ox == dx * self.settings.orbit_speed
            oy == dy * self.settings.orbit_speed
            yaw == Fmod(self.yaw + ox, 4)
            pitch == Max(Min(self.pitch + oy * self.settings.pitch_speed, 1), -1)
        IN  [self EXCEPT
                !.yaw = yaw,
                !.pitch = pitch,
                !.rotation = mul(axis_angle(<<NZero, NOne, NZero>>, yaw),
                                 axis_angle(<<NOne, NZero, NZero>>, pitch))]

\* Mutant of control_camera: the rotation is composed before the pitch is
\* advanced.
control_camera_stale_pitch(self, dx, dy) ==
    IF PAN \in self.keys THEN
        LET px == dx * self.settings.pan_speed
            py == dy * self.settings.pan_speed
            right == rotate_vector(self.rotation, <<NOne, NZero, NZero>>)
            up == rotate_vector(self.rotation, <<NZero, NOne, NZero>>)
        IN  [self EXCEPT !.target =
                vec3_add(vec3_add(self.target, vec3_scale(up, NInt(py))),
                         vec3_scale(right, NInt(px)))]
    ELSE IF ZOOM \in self.keys THEN
        [self EXCEPT !.distance = self.distance + dy * self.settings.zoom_speed]
    ELSE
        LET ox == dx * self.settings.orbit_speed
            oy == dy * self.settings.orbit_speed
            yaw == self.yaw + ox
            pitch == self.pitch + oy * self.settings.pitch_speed
        IN  [self EXCEPT
                !.yaw = yaw,
                !.pitch = pitch,
                !.rotation = mul(axis_angle(<<NZero, NOne, NZero>>, yaw),
                                 axis_angle(<<NOne, NZero, NZero>>, self.pitch))]

\* OrbitZoomCamera::control_camera.
control_camera(self, dx, dy) ==
    IF PAN \in self.keys THEN
        LET px == dx * self.settings.pan_speed
            py == dy * self.settings.pan_speed
            right == rotate_vector(self.rotation, <<NOne, NZero, NZero>>)
            up == rotate_vector(self.rotation, <<NZero, NOne, NZero>>)
        IN  [self EXCEPT !.target =
                vec3_add(vec3_add(self.target, vec3_scale(up, NInt(py))),
                         vec3_scale(right, NInt(px)))]
    ELSE IF ZOOM \in self.keys THEN
        [self EXCEPT !.distance = self.distance + dy * self.settings.zoom_speed]
    ELSE
        LET ox == dx * self.settings.orbit_speed
            oy == dy * self.settings.orbit_speed
            yaw == self.yaw + ox
            pitch == self.pitch + oy * self.settings.pitch_speed
        IN  [self EXCEPT
                !.yaw = yaw,
                !.pitch = pitch,
                !.rotation = mul(axis_angle(<<NZero, NOne, NZero>>, yaw),
                                 axis_angle(<<NOne, NZero, NZero>>, pitch))]

\* event, the mouse_scroll closure (lines 220-224).
OZOnMouseScroll(self, dx, dy) == control_camera(self, dx, dy)

\* Mutant of OZOnMouseRelative: the pointer acts whether ORBIT is held or not.
OZOnMouseRelativeAlways(self, dx, dy) == control_camera(self, -dx, dy)

\* Mutant of OZOnMouseRelative: the horizontal delta is not negated.
OZOnMouseRelativeUnflipped(self, dx, dy) ==
    IF ORBIT \in self.keys THEN control_camera(self, dx, dy) ELSE self

\* event, the mouse_relative closure (lines 226-232).
OZOnMouseRelative(self, dx, dy) ==
    IF ORBIT \in self.keys THEN control_camera(self, -dx, dy) ELSE self

\* Mutant of OZOnPress: the press of the zoom button starts from the initial
\* distance.
OZOnPressZoomReset(self, button) ==
    IF button = self.settings.orbit_button
        THEN [self EXCEPT !.keys = self.keys \cup {ORBIT}]
    ELSE IF button = self.settings.pan_button
        THEN [self EXCEPT !.keys = self.keys \cup {PAN}]
    ELSE IF button = self.settings.zoom_button
        THEN [self EXCEPT !.keys = self.keys \cup {ZOOM}, !.distance = Distance0]
    ELSE self

\* event, the press closure (lines 234-241).
OZOnPress(self, button) ==
    IF button = self.settings.orbit_button
        THEN [self EXCEPT !.keys = self.keys \cup {ORBIT}]
    ELSE IF button = self.settings.pan_button
        THEN [self EXCEPT !.keys = self.keys \cup {PAN}]
    ELSE IF button = self.settings.zoom_button
        THEN [self EXCEPT !.keys = self.keys \cup {ZOOM}]
    ELSE self

\* Mutant of OZOnRelease: a button bound to nothing releases every mode.
OZOnReleaseClearing(self, button) ==
    IF button = self.settings.orbit_button
        THEN [self EXCEPT !.keys = self.keys \ {ORBIT}]
    ELSE IF button = self.settings.pan_button
        THEN [self EXCEPT !.keys = self.keys \ {PAN}]
    ELSE IF button = self.settings.zoom_button
        THEN [self EXCEPT !.keys = self.keys \ {ZOOM}]
    ELSE [self EXCEPT !.keys = {}]

\* event, the release closure (lines 243-250).
OZOnRelease(self, button) ==
    IF button = self.settings.orbit_button
        THEN [self EXCEPT !.keys = self.keys \ {ORBIT}]
    ELSE IF button = self.settings.pan_button
        THEN [self EXCEPT !.keys = self.keys \ {PAN}]
    ELSE IF button = self.settings.zoom_button
        THEN [self EXCEPT !.keys = self.keys \ {ZOOM}]
    ELSE self

----------------------------------------------------------------------------
(* Orbit/zoom camera: the events as actions.                               *)

OZMouseScroll ==
    \E d \in Deltas :
        LET next == OZOnMouseScroll(oz, d[1], d[2])
        IN  /\ InBounds(next)
            /\ oz' = next
            /\ last' = Event("mouse_scroll", "", d[1], d[2], 0)
            /\ cam' = <<>>
            /\ UNCHANGED <<fp, time>>

OZMouseRelative ==
    \E d \in Deltas :
        LET next == OZOnMouseRelative(oz, d[1], d[2])
        IN  /\ InBounds(next)
            /\ oz' = next
            /\ last' = Event("mouse_relative", "", d[1], d[2], 0)
            /\ cam' = <<>>
            /\ UNCHANGED <<fp, time>>

OZPress ==
    \E button \in OZButtons :
        /\ oz' = OZOnPress(oz, button)
        /\ last' = Event("press", button, 0, 0, 0)
        /\ cam' = <<>>
        /\ UNCHANGED <<fp, time>>

OZRelease ==
    \E button \in OZButtons :
        /\ oz' = OZOnRelease(oz, button)
        /\ last' = Event("release", button, 0, 0, 0)
        /\ cam' = <<>>
        /\ UNCHANGED <<fp, time>>

OZInit ==
    /\ oz = OZNew(Origin, orbit_settings)
    /\ fp = NoFirstPerson
    /\ last = NoEvent
    /\ cam = <<>>
    /\ time = 0

OrbitNext == OZMouseScroll \/ OZMouseRelative \/ OZPress \/ OZRelease

SpecOrbit == OZInit /\ [][OrbitNext]_vars

\* Orbiting over several turns: the angles are followed further than in
\* SpecOrbit, and the buttons are those of orbit and zoom and the unbound one
\* (a pan would add the targets to every angle).
MaxOrbit == 5

TurnButtons == {orbit_settings.orbit_button, orbit_settings.zoom_button, "X"}

TurnBounds(self) ==
    /\ Abs(self.yaw) <= MaxOrbit
    /\ Abs(self.pitch) <= MaxOrbit
    /\ Abs(self.distance) <= MaxDistance

OZTurnScroll ==
    \E d \in Deltas :
        LET next == OZOnMouseScroll(oz, d[1], d[2])
        IN  /\ TurnBounds(next)
            /\ oz' = next
            /\ last' = Event("mouse_scroll", "", d[1], d[2], 0)
            /\ cam' = <<>>
            /\ UNCHANGED <<fp, time>>

OZTurnPointer ==
    \E d \in Deltas :
        LET next == OZOnMouseRelative(oz, d[1], d[2])
        IN  /\ TurnBounds(next)
            /\ oz' = next
            /\ last' = Event("mouse_relative", "", d[1], d[2], 0)
            /\ cam' = <<>>
            /\ UNCHANGED <<fp, time>>

OZTurnPress ==
    \E button \in TurnButtons :
        /\ oz' = OZOnPress(oz, button)
        /\ last' = Event("press", button, 0, 0, 0)
        /\ cam' = <<>>
        /\ UNCHANGED <<fp, time>>

OZTurnRelease ==
    \E button \in TurnButtons :
        /\ oz' = OZOnRelease(oz, button)
        /\ last' = Event("release", button, 0, 0, 0)
        /\ cam' = <<>>
        /\ UNCHANGED <<fp, time>>

\* A call of camera(dt) by the owner of the controller: cam is what it returns.
OZCameraCall ==
    \E dt \in Dts :
        /\ cam' = <<OZCamera(oz, dt)>>
        /\ last' = Event("camera", "", 0, 0, dt)
        /\ UNCHANGED <<fp, oz, time>>

\* The targets OrbitZoomCamera::new is called with.
TurnTargets == {Origin, <<NInt(1), NInt(2), NInt(3)>>}

TurnInit ==
    /\ \E target \in TurnTargets : oz = OZNew(target, orbit_settings)
    /\ fp = NoFirstPerson
    /\ last = NoEvent
    /\ cam = <<>>
    /\ time = 0

TurnNext ==
    OZTurnScroll \/ OZTurnPointer \/ OZTurnPress \/ OZTurnRelease \/ OZCameraCall

SpecTurn == TurnInit /\ [][TurnNext]_vars

----------------------------------------------------------------------------
(* Both controllers in one program, each handed its own button events.     *)

\* The first person camera is new; the orbit/zoom camera has taken one scroll.
BothInit ==
    /\ fp = FPNew(Origin, keyboard_wasd)
    /\ \E d \in Deltas :
            oz = OZOnMouseScroll(OZNew(Origin, orbit_settings), d[1], d[2])
    /\ last = NoEvent
    /\ cam = <<>>
    /\ time = 0

BothNext == FPPress \/ FPRelease \/ OZPress \/ OZRelease

SpecBoth == BothInit /\ [][BothNext]_vars

----------------------------------------------------------------------------
(* Vocabulary of the claims about the first person camera.                 *)

\* The index in direction of the axis an action moves along.
Axis(a) ==
    CASE a \in {MOVE_FORWARD, MOVE_BACKWARD} -> 1
      [] a \in {FLY_UP, FLY_DOWN} -> 2
      [] a \in {STRAFE_LEFT, STRAFE_RIGHT} -> 3

\* The signed unit contribution of an action to its axis.
KeySign(a) ==
    CASE a = MOVE_FORWARD -> -1
      [] a = MOVE_BACKWARD -> 1
      [] a = STRAFE_LEFT -> 1
      [] a = STRAFE_RIGHT -> -1
      [] a = FLY_UP -> 1
      [] a = FLY_DOWN -> -1

\* The opposing action of the same axis.
Opp(a) ==
    CASE a = MOVE_FORWARD -> MOVE_BACKWARD
      [] a = MOVE_BACKWARD -> MOVE_FORWARD
      [] a = STRAFE_LEFT -> STRAFE_RIGHT
      [] a = STRAFE_RIGHT -> STRAFE_LEFT
      [] a = FLY_UP -> FLY_DOWN
      [] a = FLY_DOWN -> FLY_UP

\* The button the settings bind to an action.
ButtonOf(st, a) ==
    CASE a = MOVE_FORWARD -> st.move_forward_button
      [] a = MOVE_BACKWARD -> st.move_backward_button
      [] a = STRAFE_LEFT -> st.strafe_left_button
      [] a = STRAFE_RIGHT -> st.strafe_right_button
      [] a = FLY_UP -> st.fly_up_button
      [] a = FLY_DOWN -> st.fly_down_button

IntSign(i) == IF i > 0 THEN 1 ELSE IF i < 0 THEN -1 ELSE 0

\* The sum of the signed unit contributions of the held actions of an axis.
HeldSum(keys, i) ==
    LET a == CHOOSE k \in FPKeys : Axis(k) = i
    IN  (IF a \in keys THEN KeySign(a) ELSE 0)
        + (IF Opp(a) \in keys THEN KeySign(Opp(a)) ELSE 0)

\* The number of held actions of an axis.
HeldCount(keys, i) == Cardinality({k \in keys : Axis(k) = i})

LastIs(kind, button) == last.kind = kind /\ last.button = button

----------------------------------------------------------------------------
(* C1.  After the release of one of the two opposing buttons of an axis,   *)
(* the component of that axis has the sign of the opposing action when     *)
(* that one is still held, and is 0 when neither is held.                  *)

C1_ReleaseRestoresOpposite ==
    \A a \in FPKeys :
        LastIs("release", ButtonOf(fp.settings, a)) =>
            /\ a \notin fp.keys
            /\ IF Opp(a) \in fp.keys
               THEN NSign(fp.direction[Axis(a)]) = KeySign(Opp(a))
               ELSE fp.direction[Axis(a)] = NZero

\* Forward was released while backward is held: the axis points backward.
C1_Witness ==
    /\ LastIs("release", fp.settings.move_forward_button)
    /\ fp.keys = {MOVE_BACKWARD}
    /\ fp.direction = <<NOne, NZero, NZero>>

----------------------------------------------------------------------------
(* C2.  The two horizontal components of direction are both nonzero with   *)
(* magnitude 1/sqrt(2) each, or at most one is nonzero and has magnitude   *)
(* 1; the horizontal direction vector has length 0 or 1.                   *)

Unit(x) == x \in {NOne, NInt(-1)}

Diagonal(x) == x \in {Half2, NNeg(Half2)}

C2_HorizontalUnitLength ==
    LET x == fp.direction[1]
        z == fp.direction[3]
    IN  /\ \/ Diagonal(x) /\ Diagonal(z)
           \/ x = NZero /\ (z = NZero \/ Unit(z))
           \/ z = NZero /\ Unit(x)
        /\ NAdd(NMul(x, x), NMul(z, z)) \in {NZero, NOne}

\* One axis of a diagonal was released: the other is back at magnitude 1.
C2_Witness ==
    /\ LastIs("release", fp.settings.strafe_left_button)
    /\ fp.keys = {MOVE_FORWARD, FLY_UP}
    /\ fp.direction = <<NInt(-1), NOne, NZero>>

\* A diagonal is held.
C2_WitnessDiagonal ==
    /\ fp.keys = {MOVE_FORWARD, STRAFE_RIGHT}
    /\ fp.direction = <<NNeg(Half2), NZero, NNeg(Half2)>>

----------------------------------------------------------------------------
(* C7.  As claimed: each component of direction has the sign of the sum of *)
(* the signed unit contributions of the held actions of its axis, so it is *)
(* 0 while both opposing actions are held.                                 *)

C7_SignOfSum ==
    \A i \in 1 .. 3 :
        NSign(fp.direction[i]) = IntSign(HeldSum(fp.keys, i))

(* C7, amended.  A component has the sign of the sum while at most one     *)
(* action of its axis is held; a press sets the component of its axis to   *)
(* the sign of the pressed action whatever else is held, and while both    *)
(* opposing actions stay held the component keeps that sign: it is the     *)
(* sign of the one pressed last, never 0.                                  *)

C7_AtMostOneHeld ==
    \A i \in 1 .. 3 :
        /\ HeldCount(fp.keys, i) <= 1 =>
              NSign(fp.direction[i]) = IntSign(HeldSum(fp.keys, i))
        /\ HeldCount(fp.keys, i) = 2 => fp.direction[i] # NZero

C7_PressedLast ==
    \A a \in FPKeys :
        LastIs("press", ButtonOf(fp.settings, a)) =>
            /\ a \in fp.keys
            /\ NSign(fp.direction[Axis(a)]) = KeySign(a)

C7_KeptWhileBothHeld ==
    \A i \in 1 .. 3 :
        (/\ HeldCount(fp.keys, i) = 2
         /\ HeldCount(fp'.keys, i) = 2
         /\ ~(\E a \in FPKeys :
                /\ Axis(a) = i
                /\ last'.kind = "press"
                /\ last'.button = ButtonOf(fp.settings, a)))
        => NSign(fp'.direction[i]) = NSign(fp.direction[i])

C7_LastPressWins ==
    /\ [](C7_AtMostOneHeld /\ C7_PressedLast)
    /\ [][C7_KeptWhileBothHeld]_vars

\* Forward then backward were pressed: both are held, the axis points backward.
C7_Witness ==
    /\ LastIs("press", fp.settings.move_backward_button)
    /\ {MOVE_FORWARD, MOVE_BACKWARD} \subseteq fp.keys
    /\ fp.direction[1] = NOne

----------------------------------------------------------------------------
(* C4.  After every pointer motion yaw is strictly between -2*pi and 2*pi, *)
(* and differs from yaw minus the turn by a multiple of 2*pi.              *)

C4_YawInRange == -(2 * Pi) < fp.yaw /\ fp.yaw < 2 * Pi

C4_YawStep ==
    last'.kind = "mouse_relative" =>
        LET turned == fp.yaw - last'.dx * fp.settings.mouse_sensitivity_horizontal
        IN  /\ (turned - fp'.yaw) % (2 * Pi) = 0
            /\ Abs(turned) < 2 * Pi => fp'.yaw = turned

C4_YawWraps == []C4_YawInRange /\ [][C4_YawStep]_vars

\* A turn of more than 2*pi from yaw 0 has wrapped.
C4_Witness ==
    /\ last.kind = "mouse_relative"
    /\ last.dx = MaxTurn * Eighth
    /\ fp.yaw = (8 - MaxTurn) * Eighth

----------------------------------------------------------------------------
(* C5.  After every pointer motion pitch is within [-pi/2, pi/2]; a motion *)
(* that would carry it past a bound leaves it at that bound.               *)

C5_PitchInRange == -(Pi \div 2) <= fp.pitch /\ fp.pitch <= Pi \div 2

C5_PitchStep ==
    last'.kind = "mouse_relative" =>
        LET raised == fp.pitch + last'.dy * fp.settings.mouse_sensitivity_vertical
        IN  /\ raised > Pi \div 2 => fp'.pitch = Pi \div 2
            /\ raised < -(Pi \div 2) => fp'.pitch = -(Pi \div 2)
            /\ Abs(raised) <= Pi \div 2 => fp'.pitch = raised

C5_PitchSaturates == []C5_PitchInRange /\ [][C5_PitchStep]_vars

\* A motion of more than a full turn upwards left pitch at pi/2.
C5_Witness ==
    /\ last.kind = "mouse_relative"
    /\ last.dy = MaxTurn * Eighth
    /\ fp.pitch = Pi \div 2

----------------------------------------------------------------------------
(* The displacement of dt seconds as the claims state it:                  *)
(* ((s*d0 - c*d2)*dh, d1*dt*speed_vertical, (s*d2 + c*d0)*dh) with         *)
(* dh = dt*velocity*speed_horizontal, s = sin(yaw), c = cos(yaw).          *)

Disp(dt, velocity, yaw, d, st) ==
    LET dh == NInt(dt * velocity * st.speed_horizontal)
        s == Sin(yaw)
        c == Cos(yaw)
    IN  <<NMul(NSub(NMul(s, d[1]), NMul(c, d[3])), dh),
          NMul(d[2], NInt(dt * st.speed_vertical)),
          NMul(NAdd(NMul(s, d[3]), NMul(c, d[1])), dh)>>

DispOf(self, dt) ==
    Disp(dt, self.velocity, self.yaw, self.direction, self.settings)

----------------------------------------------------------------------------
(* C6.  As claimed: a call of camera(dt) advances the stored position by   *)
(* the displacement for dt, so the stored position is the returned one.    *)

C6_CameraAdvancesPosition ==
    [][last'.kind = "camera" => fp'.position = cam'[1].position]_vars

(* C6, amended.  A call of camera(dt) returns the stored position plus the *)
(* displacement for dt and changes nothing of the controller; two calls    *)
(* with no event in between return the same stored position plus each      *)
(* call's own displacement (equal for equal dt).  Only a time-advance      *)
(* event stores the advanced position.                                     *)

C6_CameraStep ==
    last'.kind = "camera" =>
        /\ fp' = fp
        /\ cam'[1].position = vec3_add(fp.position, DispOf(fp, last'.dt))
        /\ last.kind = "camera" =>
              vec3_sub(cam'[1].position, DispOf(fp, last'.dt))
                  = vec3_sub(cam[1].position, DispOf(fp, last.dt))

C6_CameraIsPure == [][C6_CameraStep]_vars

\* With forward held at yaw 0, camera(1) returned (0, 0, -1) and the stored
\* position is still the origin.
C6_Witness ==
    /\ last.kind = "camera"
    /\ last.dt = 1
    /\ fp.keys = {MOVE_FORWARD}
    /\ fp.yaw = 0
    /\ fp.velocity = 1
    /\ fp.position = Origin
    /\ cam[1].position = <<NZero, NZero, NInt(-1)>>

----------------------------------------------------------------------------
(* C8.  A time-advance event of dt adds the displacement for dt to         *)
(* position.  At yaw 0 with only forward held it is (0, 0, -dh); velocity  *)
(* is 2 after a press and 1 after a release of move faster, which doubles  *)
(* the horizontal displacement and not the vertical one; with no movement  *)
(* action held position does not change.                                   *)

C8_Velocity ==
    /\ fp.velocity \in {1, 2}
    /\ LastIs("press", fp.settings.move_faster_button) => fp.velocity = 2
    /\ LastIs("release", fp.settings.move_faster_button) => fp.velocity = 1

C8_UpdateStep ==
    last'.kind = "update" =>
        LET dt == last'.dt
            st == fp.settings
            slow == Disp(dt, 1, fp.yaw, fp.direction, st)
            moved == vec3_sub(fp'.position, fp.position)
        IN  /\ moved = DispOf(fp, dt)
            /\ moved[1] = NMul(NInt(fp.velocity), slow[1])
            /\ moved[3] = NMul(NInt(fp.velocity), slow[3])
            /\ moved[2] = NMul(fp.direction[2], NInt(dt * st.speed_vertical))
            /\ (fp.yaw = 0 /\ fp.keys = {MOVE_FORWARD}) =>
                  moved = <<NZero, NZero,
                            NInt(-(dt * fp.velocity * st.speed_horizontal))>>
            /\ fp.keys = {} => fp'.position = fp.position

C8_UpdateDisplacement == []C8_Velocity /\ [][C8_UpdateStep]_vars

\* One second at yaw 0 with forward held and move faster pressed.
C8_Witness ==
    /\ last.kind = "update"
    /\ last.dt = 1
    /\ time = 1
    /\ fp.yaw = 0
    /\ fp.keys = {MOVE_FORWARD}
    /\ fp.velocity = 2
    /\ fp.position = <<NZero, NZero, NInt(-2)>>

----------------------------------------------------------------------------
(* Vocabulary of the claims about the orbit/zoom camera.                   *)

\* Every field but target is the same in the two states.
OnlyTargetMay(a, b) == b = [a EXCEPT !.target = b.target]

\* Every field but distance is the same in the two states.
OnlyDistanceMay(a, b) == b = [a EXCEPT !.distance = b.distance]

----------------------------------------------------------------------------
(* C3.  While PAN is held, a scroll event changes target and nothing else, *)
(* whether or not ZOOM and ORBIT are held too; target moves by dy*pan_speed *)
(* along the camera's up axis and dx*pan_speed along its right axis.       *)

C3_PanStep ==
    (last'.kind = "mouse_scroll" /\ PAN \in oz.keys) =>
        LET right == rotate_vector(oz.rotation, <<NOne, NZero, NZero>>)
            up == rotate_vector(oz.rotation, <<NZero, NOne, NZero>>)
            moved == vec3_sub(oz'.target, oz.target)
        IN  /\ OnlyTargetMay(oz, oz')
            /\ moved = vec3_add(
                           vec3_scale(up, NInt(last'.dy * oz.settings.pan_speed)),
                           vec3_scale(right, NInt(last'.dx * oz.settings.pan_speed)))
            /\ oz'.target # oz.target

C3_PanWins == [][C3_PanStep]_vars

\* With PAN, ZOOM and ORBIT all held, a scroll of (1, -1) at the initial
\* rotation moved target to (2, -2, 0) and left distance, yaw and pitch alone.
C3_Witness ==
    /\ last.kind = "mouse_scroll"
    /\ last.dx = 1
    /\ last.dy = -1
    /\ oz.keys = {PAN, ZOOM, ORBIT}
    /\ oz.target = <<NInt(2), NInt(-2), NZero>>
    /\ oz.distance = Distance0
    /\ oz.yaw = 0
    /\ oz.pitch = 0
    /\ oz.rotation = id

----------------------------------------------------------------------------
(* C9.  A pointer motion while ORBIT is not held changes nothing, also     *)
(* when PAN or ZOOM is held; a scroll is acted on whether ORBIT is held or *)
(* not: its effect is that of the control routine, the same with and       *)
(* without ORBIT among the held keys.                                      *)

C9_Step ==
    /\ (last'.kind = "mouse_relative" /\ ORBIT \notin oz.keys) => oz' = oz
    /\ last'.kind = "mouse_scroll" =>
          LET without ==
                  control_camera([oz EXCEPT !.keys = oz.keys \ {ORBIT}],
                                 last'.dx, last'.dy)
          IN  /\ oz' = [without EXCEPT !.keys = oz.keys]
              /\ (oz.keys \subseteq {ORBIT} /\ last'.dx # 0) => oz'.yaw # oz.yaw
              /\ (PAN \in oz.keys) => oz'.target # oz.target
              /\ (ZOOM \in oz.keys /\ PAN \notin oz.keys /\ last'.dy # 0) =>
                    oz'.distance # oz.distance

C9_MotionNeedsOrbit == [][C9_Step]_vars

\* A pointer motion with PAN and ZOOM held and ORBIT not: nothing has moved.
C9_Witness ==
    /\ last.kind = "mouse_relative"
    /\ last.dx = 1
    /\ last.dy = -1
    /\ oz = [OZNew(Origin, orbit_settings) EXCEPT !.keys = {PAN, ZOOM}]

----------------------------------------------------------------------------
(* C10.  With ZOOM held and PAN not, a scroll (dx, dy) adds dy*zoom_speed  *)
(* to distance whatever dx is and changes nothing else; the distance is    *)
(* not bounded below, so zero and negative distances are reached.          *)

C10_ZoomStep ==
    (last'.kind = "mouse_scroll" /\ ZOOM \in oz.keys /\ PAN \notin oz.keys) =>
        /\ OnlyDistanceMay(oz, oz')
        /\ oz'.distance = oz.distance + last'.dy * oz.settings.zoom_speed

C10_ZoomAddsToDistance == [][C10_ZoomStep]_vars

\* A scroll with dx # 0 took the distance below zero.
C10_Witness ==
    /\ last.kind = "mouse_scroll"
    /\ last.dx = 1
    /\ last.dy = -1
    /\ ZOOM \in oz.keys
    /\ PAN \notin oz.keys
    /\ oz.distance < 0

\* The distance zero is reached as well.
C10_WitnessZero ==
    /\ last.kind = "mouse_scroll"
    /\ ZOOM \in oz.keys
    /\ PAN \notin oz.keys
    /\ oz.distance = 0


----------------------------------------------------------------------------
(* C11: orbit-zoom controller, with neither PAN nor ZOOM held a scroll     *)
(* event (dx, dy) adds dx * orbit_speed to yaw and                         *)
(* dy * orbit_speed * pitch_speed to pitch, without clamp or wrap, and     *)
(* leaves target and distance unchanged.                                   *)

C11_OrbitStep ==
    (last'.kind = "mouse_scroll" /\ PAN \notin oz.keys /\ ZOOM \notin oz.keys) =>
        /\ oz'.yaw = oz.yaw + last'.dx * oz.settings.orbit_speed
        /\ oz'.pitch =
               oz.pitch + last'.dy * oz.settings.orbit_speed * oz.settings.pitch_speed
        /\ oz'.target = oz.target
        /\ oz'.distance = oz.distance
        /\ oz'.keys = oz.keys

\* C11: every scroll step with neither PAN nor ZOOM held is the unclamped,
\* unwrapped orbit step, and it leaves target and distance alone.
C11_ScrollOrbits == [][C11_OrbitStep]_vars

\* A scroll without PAN or ZOOM has left the yaw beyond a full turn (4 quarter
\* turns) and the pitch beyond a quarter turn.
C11_Witness ==
    /\ last.kind = "mouse_scroll"
    /\ PAN \notin oz.keys /\ ZOOM \notin oz.keys
    /\ Abs(oz.yaw) > 4
    /\ Abs(oz.pitch) > 1
    /\ oz.distance = Distance0


----------------------------------------------------------------------------
(* C12: orbit-zoom controller, camera(dt) changes no controller state and  *)
(* its result does not depend on dt: two calls with no event in between    *)
(* return the same position, target + rotation applied to                  *)
(* (0, 0, distance), and the same orientation.                             *)

\* The camera the claim describes, from the fields alone: the rotated unit
\* axis scaled by the distance.
C12_View(self) ==
    [position |->
        vec3_add(self.target,
                 vec3_scale(rotate_vector(self.rotation, <<NZero, NZero, NOne>>),
                            NInt(self.distance))),
     rotation |-> self.rotation]

C12_CameraStep ==
    (last'.kind = "camera") =>
        /\ oz' = oz
        /\ cam' = <<C12_View(oz)>>
        /\ (last.kind = "camera" => cam' = cam)

\* C12: every camera(dt) call leaves the controller as it is and returns the
\* view of the fields whatever dt is; a second call returns what the first did.
C12_CameraIgnoresDt == [][C12_CameraStep]_vars

\* camera was called with the largest dt on a controller away from the
\* origin that has orbited about both axes and zoomed.
C12_Witness ==
    /\ last.kind = "camera"
    /\ last.dt = MaxDt
    /\ cam = <<C12_View(oz)>>
    /\ oz.yaw # 0
    /\ oz.pitch # 0
    /\ oz.target # Origin
    /\ oz.distance # Distance0


----------------------------------------------------------------------------
(* C13: orbit-zoom controller, in every state reachable from new() by      *)
(* scroll, pointer-motion, press and release events, rotation is the yaw   *)
(* rotation about world Y composed with the pitch rotation about world X,  *)
(* for the current yaw and pitch; pan and zoom steps do not break it.      *)

\* (cos(y/2), 0, sin(y/2), 0) * (cos(p/2), sin(p/2), 0, 0) written out, the
\* angles in quarter turns.
C13_YawThenPitch(yaw, pitch) ==
    LET cy == CosEighths(yaw)
        sy == SinEighths(yaw)
        cp == CosEighths(pitch)
        sp == SinEighths(pitch)
    IN  <<NMul(cy, cp), <<NMul(cy, sp), NMul(sy, cp), NNeg(NMul(sy, sp))>>>>

\* C13: rotation is always the composition of the yaw rotation about Y and
\* the pitch rotation about X for the yaw and pitch the controller holds.
C13_RotationDerived == oz.rotation = C13_YawThenPitch(oz.yaw, oz.pitch)

\* A pan step was taken on a controller that has orbited about both axes.
C13_Witness ==
    /\ last.kind = "mouse_scroll"
    /\ PAN \in oz.keys
    /\ oz.yaw # 0
    /\ oz.pitch # 0
    /\ oz.target # Origin
    /\ oz.distance # Distance0
    /\ oz.rotation # id


----------------------------------------------------------------------------
(* C14: first person controller with move faster on a button of its own,   *)
(* velocity is 1 or 2 in every reachable state, 2 exactly when the most    *)
(* recent press/release of the move faster button was a press (1 at first  *)
(* and after a release); pressing or releasing move faster changes neither *)
(* direction nor the held keys.                                            *)

C14_FasterOnItsOwn(st) ==
    \A a \in FPKeys : ButtonOf(st, a) # st.move_faster_button

C14_VelocityStep ==
    C14_FasterOnItsOwn(fp.settings) =>
        IF last'.kind \in {"press", "release"}
           /\ last'.button = fp.settings.move_faster_button
        THEN /\ fp'.velocity = (IF last'.kind = "press" THEN 2 ELSE 1)
             /\ fp'.direction = fp.direction
             /\ fp'.keys = fp.keys
        ELSE fp'.velocity = fp.velocity

\* C14: velocity starts at 1, is always 1 or 2, is set to 2 by a press and to
\* 1 by a release of move faster and by nothing else, and those two events
\* leave direction and the held keys alone.
C14_VelocityFollowsFaster ==
    /\ fp.velocity = 1
    /\ [](fp.velocity \in {1, 2})
    /\ [][C14_VelocityStep]_vars

\* Move faster was released with movement keys held and a direction set,
\* the velocity back at 1.
C14_Witness ==
    /\ LastIs("release", fp.settings.move_faster_button)
    /\ C14_FasterOnItsOwn(fp.settings)
    /\ fp.velocity = 1
    /\ Cardinality(fp.keys) >= 2
    /\ fp.direction[1] # NZero
    /\ fp.direction[2] # NZero

\* Move faster was pressed and stays in force through other key events.
C14_WitnessFast ==
    /\ LastIs("release", fp.settings.move_forward_button)
    /\ fp.velocity = 2
    /\ fp.keys # {}


----------------------------------------------------------------------------
(* C15: first person controller, position is changed only by time-advance  *)
(* events: press, release and pointer-motion events leave position         *)
(* unchanged, and a time-advance event leaves yaw, pitch, direction,       *)
(* velocity and the held keys unchanged.                                   *)

C15_FrameStep ==
    /\ (last'.kind \in {"press", "release", "mouse_relative"}) =>
            fp'.position = fp.position
    /\ (last'.kind = "update") =>
            /\ fp'.yaw = fp.yaw
            /\ fp'.pitch = fp.pitch
            /\ fp'.direction = fp.direction
            /\ fp'.velocity = fp.velocity
            /\ fp'.keys = fp.keys
            /\ fp'.settings = fp.settings

\* C15: every press, release and pointer step keeps position, and every
\* update step keeps everything but position.
C15_PositionOnlyByUpdate == [][C15_FrameStep]_vars

\* An update has moved a controller that was turned, tilted and made faster.
C15_Witness ==
    /\ last.kind = "update"
    /\ fp.position # Origin
    /\ fp.yaw # 0
    /\ fp.pitch # 0
    /\ fp.velocity = 2
    /\ fp.keys # {}

\* Keys and pointer events were handled away from the starting position.
C15_WitnessAfterMove ==
    /\ last.kind \in {"press", "release", "mouse_relative"}
    /\ fp.position # Origin


----------------------------------------------------------------------------
(* C16: both controllers, a press or release event for a button bound to   *)
(* no action changes no state at all (first person: yaw, pitch, direction, *)
(* position, velocity, held keys; orbit-zoom: target, rotation, yaw,       *)
(* pitch, distance, held keys).                                            *)

C16_FPBound(st) ==
    {st.move_forward_button, st.move_backward_button, st.strafe_left_button,
     st.strafe_right_button, st.fly_up_button, st.fly_down_button,
     st.move_faster_button}

C16_OZBound(st) == {st.orbit_button, st.pan_button, st.zoom_button}

C16_UnboundStep ==
    (last'.kind \in {"press", "release"}) =>
        /\ (last'.button \notin C16_FPBound(fp.settings)) => fp' = fp
        /\ (last'.button \notin C16_OZBound(oz.settings)) => oz' = oz

\* C16: a press or release of a button a controller binds to nothing leaves
\* every field of that controller as it was.
C16_UnboundIsNoOp == [][C16_UnboundStep]_vars

\* The button bound in neither controller was released while both held keys.
C16_Witness ==
    /\ last.kind = "release"
    /\ last.button \notin C16_FPBound(fp.settings) \cup C16_OZBound(oz.settings)
    /\ Cardinality(fp.keys) >= 2
    /\ fp.velocity = 2
    /\ fp.direction # <<NZero, NZero, NZero>>
    /\ Cardinality(oz.keys) >= 2
    /\ oz.rotation # id


----------------------------------------------------------------------------
(* C17: first person controller, in every state reachable from new() by    *)
(* press/release events (repeated presses and releases of keys not held    *)
(* included), each axis component of direction is nonzero if and only if   *)
(* one of that axis's two actions is held, and has the sign of the held    *)
(* action when exactly one is held; with no movement action held direction *)
(* is (0, 0, 0).                                                           *)

C17_AxisHeld(i) == {k \in fp.keys : Axis(k) = i}

\* C17: a component is nonzero exactly when an action of its axis is held,
\* and a single held action gives it its sign.
C17_DirectionFollowsKeys ==
    /\ \A i \in 1 .. 3 :
        /\ (fp.direction[i] # NZero) <=> (C17_AxisHeld(i) # {})
        /\ \A k \in C17_AxisHeld(i) :
                C17_AxisHeld(i) = {k} => NSign(fp.direction[i]) = KeySign(k)
    /\ (fp.keys = {}) => fp.direction = <<NZero, NZero, NZero>>

\* After a release one axis has both actions held, one a single action and
\* one none.
C17_Witness ==
    /\ last.kind = "release"
    /\ \E i, j, k \in 1 .. 3 :
        /\ Cardinality(C17_AxisHeld(i)) = 2
        /\ Cardinality(C17_AxisHeld(j)) = 1
        /\ Cardinality(C17_AxisHeld(k)) = 0
        /\ fp.direction[i] # NZero
        /\ fp.direction[k] = NZero


----------------------------------------------------------------------------
(* C18: orbit-zoom controller, a pointer-motion event (dx, dy) received    *)
(* while ORBIT is held has exactly the effect of a scroll event (-dx, dy)  *)
(* in the same state, through the same pan > zoom > orbit priority: with   *)
(* PAN held it pans the target, with ZOOM and no PAN it changes distance,  *)
(* and it changes yaw and pitch only when neither is held.                 *)

\* Only yaw, pitch and rotation differ between a and b.
C18_OnlyAnglesMay(a, b) ==
    b = [a EXCEPT !.yaw = b.yaw, !.pitch = b.pitch, !.rotation = b.rotation]

C18_PointerStep ==
    (last'.kind = "mouse_relative" /\ ORBIT \in oz.keys) =>
        /\ oz' = OZOnMouseScroll(oz, -last'.dx, last'.dy)
        /\ PAN \in oz.keys => OnlyTargetMay(oz, oz')
        /\ (PAN \notin oz.keys /\ ZOOM \in oz.keys) =>
                /\ OnlyDistanceMay(oz, oz')
                /\ oz'.distance = oz.distance + last'.dy * oz.settings.zoom_speed
        /\ (PAN \notin oz.keys /\ ZOOM \notin oz.keys) =>
                /\ C18_OnlyAnglesMay(oz, oz')
                /\ oz'.yaw = oz.yaw - last'.dx * oz.settings.orbit_speed
                /\ oz'.pitch = oz.pitch
                       + last'.dy * oz.settings.orbit_speed * oz.settings.pitch_speed

\* C18: every pointer step with ORBIT held does what the scroll handler does
\* on (-dx, dy), in the mode the held keys select.
C18_PointerIsMirroredScroll == [][C18_PointerStep]_vars

\* With ORBIT and PAN held a horizontal pointer motion has moved the target.
C18_Witness ==
    /\ last.kind = "mouse_relative"
    /\ last.dx # 0
    /\ ORBIT \in oz.keys
    /\ PAN \in oz.keys
    /\ oz.target # Origin
    /\ oz.yaw = 0 /\ oz.pitch = 0

\* With ORBIT and ZOOM held a pointer motion has changed the distance.
C18_WitnessZoom ==
    /\ last.kind = "mouse_relative"
    /\ last.dy # 0
    /\ oz.keys = {ORBIT, ZOOM}
    /\ oz.distance # Distance0
    /\ oz.target = Origin
    /\ oz.yaw = 0 /\ oz.pitch = 0

----------------------------------------------------------------------------
(* C19: orbit-zoom controller, press and release events change only the    *)
(* held-mode set (a bound press inserts its mode flag, a bound release     *)
(* removes it); target, rotation, pitch, yaw and distance change only      *)
(* through scroll events and pointer-motion events with ORBIT held.        *)

\* The mode flag the settings bind a button to, or none.
C19_Flag(st, button) ==
    {k \in {ORBIT, PAN, ZOOM} :
        button = (CASE k = ORBIT -> st.orbit_button
                    [] k = PAN -> st.pan_button
                    [] k = ZOOM -> st.zoom_button)}

C19_View(self) ==
    <<self.target, self.rotation, self.pitch, self.yaw, self.distance>>

C19_ButtonStep ==
    /\ (last'.kind = "press") =>
            oz' = [oz EXCEPT !.keys = oz.keys \cup C19_Flag(oz.settings, last'.button)]
    /\ (last'.kind = "release") =>
            oz' = [oz EXCEPT !.keys = oz.keys \ C19_Flag(oz.settings, last'.button)]
    /\ (C19_View(oz') # C19_View(oz)) =>
            \/ last'.kind = "mouse_scroll"
            \/ last'.kind = "mouse_relative" /\ ORBIT \in oz.keys

\* C19: a press adds and a release removes the flag of its button and nothing
\* else; target, rotation, pitch, yaw and distance move only in scroll steps
\* and in pointer steps with ORBIT held.
C19_ButtonsOnlySetModes == [][C19_ButtonStep]_vars

\* The zoom button was released on a controller that has orbited, panned and
\* zoomed.
C19_Witness ==
    /\ LastIs("release", oz.settings.zoom_button)
    /\ ZOOM \notin oz.keys
    /\ oz.keys # {}
    /\ oz.distance # Distance0
    /\ oz.target # Origin
    /\ oz.rotation # id


----------------------------------------------------------------------------
(* C20: first person controller, when the settings bind one button to      *)
(* several actions a press of it marks every action bound to it as held    *)
(* and applies each one's effect (a button bound to fly down and to move   *)
(* faster sets the vertical component and sets velocity to 2), and a       *)
(* release undoes each of them.                                            *)

\* The movement actions the settings bind to a button.
C20_Bound(st, button) == {a \in FPKeys : ButtonOf(st, a) = button}

C20_SharedStep ==
    LET st == fp.settings
        button == last'.button
        acts == C20_Bound(st, button)
    IN  /\ (last'.kind = "press") =>
            /\ acts \subseteq fp'.keys
            /\ \A a \in acts :
                    Opp(a) \notin acts =>
                        NSign(fp'.direction[Axis(a)]) = KeySign(a)
            /\ (button = st.move_faster_button) => fp'.velocity = 2
        /\ (last'.kind = "release") =>
            /\ acts \cap fp'.keys = {}
            /\ (button = st.move_faster_button) => fp'.velocity = 1

\* C20: a press holds and applies, and a release undoes, every action bound
\* to the button, move faster included.
C20_EveryBoundActionApplies == [][C20_SharedStep]_vars

====
